---- MODULE Spec2Model ----
(***************************************************************************)
(* A model of src/main.py: the GTFS service-hours calculation              *)
(* (parse_gtfs_time, get_active_services_on_date,                          *)
(* calculate_service_hours_from_url) and the /calculate_hours endpoint.    *)
(*                                                                         *)
(* Representation.                                                         *)
(*  - A text cell is a sequence of one-character strings; the missing      *)
(*    value (pandas NaN / None) is the one-element sequence NaN.           *)
(*  - A timedelta is a record [days, seconds], as Python stores it.        *)
(*  - A date is a day number of January 2024 (day 1 is Monday 2024-01-01). *)
(*    A date cell is <<"str", d>> (the text "202401dd"; d = 0 stands for a *)
(*    text that is no date), <<"dt", d>> (a datetime64 value) or NaT.      *)
(*  - Hours are kept as whole seconds (total_seconds() before the division *)
(*    by 3600.0), so sums are exact.                                       *)
(***************************************************************************)
EXTENDS Integers, Sequences, FiniteSets, TLC

VARIABLES
    pc,              \* control location of the running request / call
    request,         \* the JSON body of the POST (or the call's arguments)
    gtfs_data,       \* the four tables the computation works on
    loaded,          \* the tables as they were handed over (never written)
    date_obj,        \* the loop's current date (calculate_service_hours_from_url)
    total_hours,     \* the running total, in seconds
    active_services, \* result of the last get_active_services_on_date call
    merged,          \* the last iteration's joined rows after dropna
    grouping,        \* the last iteration's grouping key: "none", "trip_id", "block_id"
    response,        \* the endpoint's answer
    fetch,           \* requests.get: "none" (not started), "failed" or "ok"
    ret,             \* how calculate_service_hours_from_url was left: "none",
                     \* "line100", "line119", "line172" or "raised"
    t,               \* parse_gtfs_time: the argument
    parsed           \* parse_gtfs_time: the outcome

vars == <<pc, request, gtfs_data, loaded, date_obj, total_hours,
          active_services, merged, grouping, response, fetch, ret, t, parsed>>

-----------------------------------------------------------------------------
(* Bounds *)

\* Last day of the modelled calendar; request dates range over 1..MaxDay.
MaxDay == 3

\* Largest number of ":"-separated fields of a parse_gtfs_time argument.
MaxFields == 4

-----------------------------------------------------------------------------
(* parse_gtfs_time (src/main.py 33-41) *)

NaN == <<"nan">>

None == [kind |-> "None"]

Digits == {"0", "1", "2", "3", "4", "5", "6", "7", "8", "9"}

DigitVal(c) ==
    CASE c = "0" -> 0 [] c = "1" -> 1 [] c = "2" -> 2 [] c = "3" -> 3
      [] c = "4" -> 4 [] c = "5" -> 5 [] c = "6" -> 6 [] c = "7" -> 7
      [] c = "8" -> 8 [] c = "9" -> 9

\* pd.isna(t)
IsNa(x) == x = NaN

\* str.split(":"): the fields between the separators (always at least one).
RECURSIVE SplitFrom(_, _, _)
SplitFrom(s, i, cur) ==
    IF i > Len(s) THEN <<cur>>
    ELSE IF s[i] = ":" THEN <<cur>> \o SplitFrom(s, i + 1, <<>>)
    ELSE SplitFrom(s, i + 1, Append(cur, s[i]))

Split(s) == SplitFrom(s, 1, <<>>)

\* The digits of an integer literal without its sign.
Unsigned(f) == IF Len(f) > 0 /\ f[1] \in {"-", "+"} THEN Tail(f) ELSE f

\* int(f) succeeds: an optional sign and at least one decimal digit (for
\* texts without blanks and underscores, which int() would also accept).
IsIntText(f) ==
    /\ Len(Unsigned(f)) > 0
    /\ \A i \in 1..Len(Unsigned(f)) : Unsigned(f)[i] \in Digits

Sign(f) == IF Len(f) > 0 /\ f[1] = "-" THEN -1 ELSE 1

\* int(f) as quotient and remainder by d, so that an 11-digit literal stays
\* within TLC's 32-bit integers: int(f) = Sign(f) * (d*q + r).
RECURSIVE DivModFrom(_, _, _, _, _)
DivModFrom(ds, i, d, q, r) ==
    IF i > Len(ds) THEN <<q, r>>
    ELSE LET n == r * 10 + DigitVal(ds[i])
         IN  DivModFrom(ds, i + 1, d, q * 10 + (n \div d), n % d)

DivMod(f, d) == DivModFrom(Unsigned(f), 1, d, 0, 0)

\* datetime.timedelta's limit on its days field.
TimedeltaMaxDays == 999999999

\* timedelta(hours=h, minutes=m, seconds=s): normalised to days and seconds
\* with 0 <= seconds < 86400; OverflowError when |days| > 999999999.
Timedelta(fh, fm, fs) ==
    LET h == DivMod(fh, 24)
        m == DivMod(fm, 1440)
        s == DivMod(fs, 86400)
        wholeDays == Sign(fh) * h[1] + Sign(fm) * m[1] + Sign(fs) * s[1]
        rest == Sign(fh) * h[2] * 3600 + Sign(fm) * m[2] * 60 + Sign(fs) * s[2]
        secs == rest % 86400
        days == wholeDays + (rest - secs) \div 86400
    IN  IF days > TimedeltaMaxDays \/ days < -TimedeltaMaxDays
        THEN [kind |-> "OverflowError"]
        ELSE [kind |-> "timedelta", days |-> days, seconds |-> secs]

parse_gtfs_time(x) ==
    IF IsNa(x) THEN None
    ELSE LET f == Split(x)
         IN  IF Len(f) # 3 THEN None
             ELSE IF \E i \in 1..3 : ~IsIntText(f[i]) THEN None
             ELSE Timedelta(f[1], f[2], f[3])

-----------------------------------------------------------------------------
(* Dates and date cells *)

Weekdays == <<"monday", "tuesday", "wednesday", "thursday", "friday",
              "saturday", "sunday">>

\* target_date.strftime("%A").lower()
WeekdayName(d) == Weekdays[((d - 1) % 7) + 1]

NaT == <<"NaT", 0>>

DateNaN == <<"nan", 0>>

\* The text "202401dd"; DateText(0) is a text that is no YYYYMMDD date.
DateText(d) == <<"str", d>>

\* pd.Timestamp(year, month, day)
Timestamp(d) == <<"dt", d>>

\* pd.to_datetime(cell, format="%Y%m%d", errors='coerce')
to_datetime(cell) ==
    IF cell[1] = "dt" THEN cell
    ELSE IF cell[1] = "str" /\ cell[2] \in 1..31 THEN <<"dt", cell[2]>>
    ELSE NaT

\* Series.dt.strftime("%Y%m%d") of one datetime cell (NaT gives NaN).
dt_strftime(cell) == IF cell[1] = "dt" THEN <<"str", cell[2]>> ELSE DateNaN

\* Series.astype(str) of one cell (NaN becomes the text "nan", no date).
astype_str(cell) == IF cell[1] = "str" THEN cell ELSE <<"str", 0>>

\* a <= b on datetime cells; any comparison with NaT is False.
DtLe(a, b) == a[1] = "dt" /\ b[1] = "dt" /\ a[2] <= b[2]

-----------------------------------------------------------------------------
(* get_active_services_on_date (src/main.py 43-84) *)

Range(seq) == {seq[i] : i \in DOMAIN seq}

\* lines 53-56: each date column is converted in place unless it already is
\* a datetime column.
NormalizeCalendar(calendar) ==
    [calendar EXCEPT
        !.start_dtype = "datetime64",
        !.end_dtype = "datetime64",
        !.rows = [i \in DOMAIN calendar.rows |->
                    [calendar.rows[i] EXCEPT
                        !.start_date = IF calendar.start_dtype = "datetime64"
                                       THEN @ ELSE to_datetime(@),
                        !.end_date = IF calendar.end_dtype = "datetime64"
                                     THEN @ ELSE to_datetime(@)]]]

\* lines 58-63
BaseServices(calendar, d) ==
    {calendar.rows[i].service_id : i \in
        {j \in DOMAIN calendar.rows :
            /\ calendar.rows[j].flags[WeekdayName(d)] = "1"
            /\ DtLe(calendar.rows[j].start_date, Timestamp(d))
            /\ DtLe(Timestamp(d), calendar.rows[j].end_date)}}

\* lines 68-71: the date_str column is (re)written on the table itself.
WithDateStr(calendar_dates) ==
    [calendar_dates EXCEPT
        !.date_str = [has |-> TRUE,
                      cells |-> [i \in DOMAIN calendar_dates.rows |->
                          IF calendar_dates.date_dtype = "datetime64"
                          THEN dt_strftime(calendar_dates.rows[i].date)
                          ELSE astype_str(calendar_dates.rows[i].date)]]]

\* lines 73-81: the service ids of the rows dated d with the given type.
ExceptionServices(calendar_dates, d, type) ==
    {calendar_dates.rows[i].service_id : i \in
        {j \in DOMAIN calendar_dates.rows :
            /\ calendar_dates.date_str.cells[j] = DateText(d)
            /\ calendar_dates.rows[j].exception_type = type}}

ActiveServices_AddAfterRemove(base, added, removed) ==
    (base \ removed) \cup added

\* line 83
ActiveServices(base, added, removed) == (base \cup added) \ removed

\* The whole function: the result and the two tables as it leaves them.
get_active_services_on_date(d, calendar, calendar_dates) ==
    LET calUsable == calendar.rows # <<>>
        cal1 == IF calUsable THEN NormalizeCalendar(calendar) ELSE calendar
        base == IF calUsable THEN BaseServices(cal1, d) ELSE {}
        cdUsable == calendar_dates.rows # <<>>
        cd1 == IF cdUsable THEN WithDateStr(calendar_dates) ELSE calendar_dates
        added == IF cdUsable THEN ExceptionServices(cd1, d, "1") ELSE {}
        removed == IF cdUsable THEN ExceptionServices(cd1, d, "2") ELSE {}
    IN  [calendar |-> cal1,
         calendar_dates |-> cd1,
         result |-> ActiveServices(base, added, removed)]

-----------------------------------------------------------------------------
(* calculate_service_hours_from_url (src/main.py 86-172) *)

\* DataFrame.empty, for a file that may be missing from the archive
Unusable(table) == ~table.present \/ table.rows = <<>>

\* line 110
EmptyCalendarDates ==
    [present |-> TRUE, date_dtype |-> "object",
     date_str |-> [has |-> FALSE, cells |-> <<>>], rows |-> <<>>]

\* line 116
EmptyCalendar ==
    [present |-> TRUE, start_dtype |-> "object", end_dtype |-> "object",
     rows |-> <<>>]

\* lines 108-110
DefaultCalendarDates(g) ==
    IF ~g.calendar_dates.present
    THEN [g EXCEPT !.calendar_dates = EmptyCalendarDates]
    ELSE g

CalendarMayBeDefaulted_Never(g) == FALSE

\* line 114: calendar.txt may be replaced by an empty frame
CalendarMayBeDefaulted(g) ==
    g.calendar_dates.present /\ g.calendar_dates.rows # <<>>

\* lines 107-119: ok = FALSE is the function's "return 0.0" at line 119.
Validate(g0) ==
    LET g1 == DefaultCalendarDates(g0)
        calBad == Unusable(g1.calendar)
        g2 == IF calBad /\ CalendarMayBeDefaulted(g1)
              THEN [g1 EXCEPT !.calendar = EmptyCalendar]
              ELSE g1
    IN  IF calBad /\ ~CalendarMayBeDefaulted(g1) THEN [ok |-> FALSE, gtfs |-> g1]
        ELSE IF Unusable(g2.trips) THEN [ok |-> FALSE, gtfs |-> g2]
        ELSE IF Unusable(g2.stop_times) THEN [ok |-> FALSE, gtfs |-> g2]
        ELSE [ok |-> TRUE, gtfs |-> g2]

FillStopTimes_None(stop_times) == stop_times

\* lines 133-134: arrival filled from departure, then departure from the
\* (filled) arrival, both written to the stop_times table.
FillStopTimes(stop_times) ==
    [stop_times EXCEPT !.rows = [i \in DOMAIN stop_times.rows |->
        LET r == stop_times.rows[i]
            arr == IF IsNa(r.arrival_time) THEN r.departure_time
                   ELSE r.arrival_time
            dep == IF IsNa(r.departure_time) THEN arr ELSE r.departure_time
        IN  [r EXCEPT !.arrival_time = arr, !.departure_time = dep]]]

\* lines 127-134 (the columns are present, so 127-128 and 135 do nothing)
Preprocess(g) ==
    [g EXCEPT !.calendar = NormalizeCalendar(g.calendar),
              !.stop_times = FillStopTimes(g.stop_times)]

\* lines 145-149: trips of the active services, inner-joined to stop_times
\* on trip_id.  A joined row keeps the indices of the rows it comes from.
Merge(trips, stop_times, active) ==
    {[ti |-> i, si |-> j,
      trip_id |-> trips.rows[i].trip_id,
      block_id |-> trips.rows[i].block_id,
      arrival_td |-> parse_gtfs_time(stop_times.rows[j].arrival_time),
      departure_td |-> parse_gtfs_time(stop_times.rows[j].departure_time)] :
        <<i, j>> \in {p \in (DOMAIN trips.rows) \X (DOMAIN stop_times.rows) :
            /\ trips.rows[p[1]].service_id \in active
            /\ trips.rows[p[1]].trip_id = stop_times.rows[p[2]].trip_id}}

\* line 154: dropna(subset=["arrival_td", "departure_td"])
DropNa(rows) == {r \in rows : r.arrival_td.kind # "None" /\ r.departure_td.kind # "None"}

GroupByTrip_ColumnOnly(has_block, rows) == ~has_block

\* line 157: per-trip spans when there is no block_id column or every
\* remaining row's block_id is null
GroupByTrip(has_block, rows) ==
    ~has_block \/ \A r \in rows : r.block_id = "nan"

\* timedelta comparison
TdLt(a, b) == a.days < b.days \/ (a.days = b.days /\ a.seconds < b.seconds)

TdMin(S) == CHOOSE x \in S : \A y \in S : ~TdLt(y, x)

TdMax(S) == CHOOSE x \in S : \A y \in S : ~TdLt(x, y)

\* (end - start).total_seconds()
TotalSeconds(start, end) ==
    (end.days - start.days) * 86400 + (end.seconds - start.seconds)

SpanContributes_Always(start, end) == TRUE

\* lines 161 and 169: the span counts only when end > start
SpanContributes(start, end) == TdLt(start, end)

\* lines 159-162 and 167-170: one group's addition to total_hours
GroupSpan(group) ==
    LET start == TdMin({r.departure_td : r \in group})
        end == TdMax({r.arrival_td : r \in group})
    IN  IF SpanContributes(start, end) THEN TotalSeconds(start, end) ELSE 0

\* groupby(key): the groups of the non-null key values (null keys are left out)
GroupKeys(rows, key) ==
    IF key = "trip_id" THEN {r.trip_id : r \in rows}
    ELSE {r.block_id : r \in rows} \ {"nan"}

GroupOf(rows, key, k) ==
    IF key = "trip_id" THEN {r \in rows : r.trip_id = k}
    ELSE {r \in rows : r.block_id = k}

RECURSIVE SumSpans(_, _, _)
SumSpans(rows, key, keys) ==
    IF keys = {} THEN 0
    ELSE LET k == CHOOSE x \in keys : TRUE
         IN  GroupSpan(GroupOf(rows, key, k)) + SumSpans(rows, key, keys \ {k})

NoActiveServices_Break == "break"

\* line 144: a date without active services is skipped
NoActiveServices == "continue"

\* lines 143-170: one iteration of the loop over target_dates.
LoopBody(g, d, total) ==
    LET r == get_active_services_on_date(d, g.calendar, g.calendar_dates)
        g1 == [g EXCEPT !.calendar = r.calendar,
                        !.calendar_dates = r.calendar_dates]
        joined == Merge(g1.trips, g1.stop_times, r.result)
        raises == \E x \in joined : \/ x.arrival_td.kind = "OverflowError"
                                    \/ x.departure_td.kind = "OverflowError"
        rows == DropNa(joined)
        key == IF GroupByTrip(g1.trips.has_block, rows) THEN "trip_id"
               ELSE "block_id"
        skip == [gtfs |-> g1, total |-> total, active |-> r.result,
                 merged |-> {}, grouping |-> "none", ctl |-> "continue"]
    IN  IF r.result = {} THEN [skip EXCEPT !.ctl = NoActiveServices]
        ELSE IF joined = {} THEN skip
        ELSE IF raises THEN [skip EXCEPT !.ctl = "raise"]
        ELSE IF rows = {} THEN skip
        ELSE [gtfs |-> g1,
              total |-> total + SumSpans(rows, key, GroupKeys(rows, key)),
              active |-> r.result, merged |-> rows, grouping |-> key,
              ctl |-> "continue"]

\* lines 139-172 as a function of the preprocessed tables: the loop over
\* the dates first..last, from the running total `total`.
RECURSIVE RunLoop(_, _, _, _)
RunLoop(g, first, last, total) ==
    IF first > last THEN [kind |-> "return", total |-> total]
    ELSE LET b == LoopBody(g, first, total)
         IN  IF b.ctl = "raise" THEN [kind |-> "raise", total |-> b.total]
             ELSE IF b.ctl = "break" THEN [kind |-> "return", total |-> b.total]
             ELSE RunLoop(b.gtfs, first + 1, last, b.total)

\* The function's result on the tables of a downloaded archive.
ServiceHours(g0, first, last) ==
    LET v == Validate(g0)
    IN  IF ~v.ok THEN [kind |-> "return", total |-> 0]
        ELSE RunLoop(Preprocess(v.gtfs), first, last, 0)

-----------------------------------------------------------------------------
(* Inputs *)

Flags(days) == [w \in Range(Weekdays) |-> IF w \in days THEN "1" ELSE "0"]

AllWeek == Flags(Range(Weekdays))

CalendarRow(sid, flags, first, last) ==
    [service_id |-> sid, flags |-> flags, start_date |-> first,
     end_date |-> last]

CalendarTable(rows) ==
    [present |-> TRUE, start_dtype |-> "object", end_dtype |-> "object",
     rows |-> rows]

AbsentCalendar == [EmptyCalendar EXCEPT !.present = FALSE]

ExceptionRow(sid, d, type) ==
    [service_id |-> sid, date |-> DateText(d), exception_type |-> type]

CalendarDatesTable(rows) == [EmptyCalendarDates EXCEPT !.rows = rows]

AbsentCalendarDates == [EmptyCalendarDates EXCEPT !.present = FALSE]

TripRow(tid, sid, bid) ==
    [trip_id |-> tid, service_id |-> sid, block_id |-> bid]

TripsTable(has_block, rows) ==
    [present |-> TRUE, has_block |-> has_block, rows |-> rows]

AbsentTrips == [present |-> FALSE, has_block |-> FALSE, rows |-> <<>>]

StopRow(tid, times) ==
    [trip_id |-> tid, arrival_time |-> times[1], departure_time |-> times[2]]

StopTimesTable(rows) == [present |-> TRUE, rows |-> rows]

AbsentStopTimes == [present |-> FALSE, rows |-> <<>>]

NoData ==
    [calendar |-> AbsentCalendar, calendar_dates |-> AbsentCalendarDates,
     trips |-> AbsentTrips, stop_times |-> AbsentStopTimes]

T0800 == <<"0", "8", ":", "0", "0", ":", "0", "0">>
T0900 == <<"0", "9", ":", "0", "0", ":", "0", "0">>
T2410 == <<"2", "4", ":", "1", "0", ":", "0", "0">>
TBad == <<"0", "8", ":", "x", "x", ":", "0", "0">>
THuge == <<"3", "0", "0", "0", "0", "0", "0", "0", "0", "0", "0", ":",
           "0", "0", ":", "0", "0">>

\* (arrival_time, departure_time) of the stop_times rows tried
TimePairs ==
    { <<T0900, T0800>>,    \* arrives one hour after it leaves
      <<T0800, T0900>>,    \* arrives before it leaves
      <<NaN, T0800>>,      \* arrival missing
      <<T2410, NaN>>,      \* departure missing, past midnight
      <<NaN, NaN>>,        \* both missing
      <<TBad, T0800>>,     \* arrival is no time
      <<THuge, T0800>> }   \* arrival beyond timedelta's range

Calendars ==
    { AbsentCalendar, EmptyCalendar,
      CalendarTable(<<CalendarRow("S1", AllWeek, DateText(1), DateText(MaxDay))>>),
      CalendarTable(<<CalendarRow("S1", AllWeek, DateText(2), DateText(2))>>) }

CalendarDatesTables ==
    { AbsentCalendarDates, EmptyCalendarDates,
      CalendarDatesTable(<<ExceptionRow("S2", 2, "1")>>),
      CalendarDatesTable(<<ExceptionRow("S1", 2, "2")>>),
      CalendarDatesTable(<<ExceptionRow("S2", 2, "1"), ExceptionRow("S2", 2, "2")>>) }

TripsWithRows ==
    { TripsTable(FALSE, <<TripRow("T1", "S1", "nan"), TripRow("T2", "S2", "nan")>>) }
    \cup { TripsTable(TRUE, <<TripRow("T1", "S1", b1), TripRow("T2", "S2", b2)>>) :
             b1 \in {"nan", "B1"}, b2 \in {"nan", "B1"} }
    \cup { TripsTable(TRUE, <<TripRow("T1", "S1", "B1"), TripRow("T2", "S1", b2)>>) :
             b2 \in {"nan", "B1"} }

StopTimesWithRows ==
    { StopTimesTable(<<StopRow("T1", p)>>) : p \in TimePairs }
    \cup { StopTimesTable(<<StopRow("T1", p), StopRow(tid, q)>>) :
             p \in TimePairs, q \in TimePairs, tid \in {"T1", "T2"} }

DefaultTrips ==
    TripsTable(TRUE, <<TripRow("T1", "S1", "B1"), TripRow("T2", "S2", "B1")>>)

DefaultStopTimes ==
    StopTimesTable(<<StopRow("T1", <<T0900, T0800>>), StopRow("T2", <<T2410, T0900>>)>>)

\* The archives the download may deliver: every combination of present,
\* empty and missing files over a fixed pair of trips, and every combination
\* of trips and stop_times rows under a fixed weekly calendar.
Feeds ==
    [calendar : Calendars, calendar_dates : CalendarDatesTables,
     trips : {AbsentTrips, TripsTable(TRUE, <<>>), DefaultTrips},
     stop_times : {AbsentStopTimes, StopTimesTable(<<>>), DefaultStopTimes}]
    \cup
    [calendar : {CalendarTable(<<CalendarRow("S1", AllWeek, DateText(1), DateText(MaxDay))>>)},
     calendar_dates : {AbsentCalendarDates,
                       CalendarDatesTable(<<ExceptionRow("S2", 2, "1")>>)},
     trips : TripsWithRows, stop_times : StopTimesWithRows]

\* JSON bodies: a key that is absent reads as None ("None" / 0 here).
Requests ==
    [agencyKey : {"None", "", "acme"}, startDate : 0..MaxDay, endDate : 0..MaxDay]

-----------------------------------------------------------------------------
(* The /calculate_hours endpoint (src/main.py 176-211) running            *)
(* calculate_service_hours_from_url                                        *)

NoResponse == [status |-> 0, body |-> "none", revenue_hours |-> 0]

Idle ==
    /\ gtfs_data = NoData /\ loaded = NoData
    /\ date_obj = 0 /\ total_hours = 0
    /\ active_services = {} /\ merged = {} /\ grouping = "none"
    /\ response = NoResponse /\ fetch = "none" /\ ret = "none"
    /\ t = NaN /\ parsed = None

Init ==
    /\ pc = "start"
    /\ request \in Requests
    /\ Idle

\* pd.to_datetime(x).strftime('%Y-%m-%d') raises for a missing date:
\* pd.to_datetime(None) is None, which has no strftime (lines 184-185).
DateParamRaises(req) == req.startDate = 0 \/ req.endDate = 0

\* line 187: not all([agency_key, start_date_str, end_date_str])
ParamsMissing(req) == req.agencyKey \in {"None", ""}

\* lines 179-191
Receive ==
    /\ pc = "start"
    /\ IF DateParamRaises(request)
       THEN /\ response' = [status |-> 500, body |-> "exception", revenue_hours |-> 0]
            /\ pc' = "responded"
       ELSE IF ParamsMissing(request)
       THEN /\ response' = [status |-> 400, body |-> "Missing parameters",
                            revenue_hours |-> 0]
            /\ pc' = "responded"
       ELSE /\ response' = response
            /\ pc' = "download"
    /\ UNCHANGED <<request, gtfs_data, loaded, date_obj, total_hours,
                   active_services, merged, grouping, fetch, ret, t, parsed>>

\* lines 94-100 and 195-197: the download fails, the function returns None
DownloadFails ==
    /\ pc = "download"
    /\ fetch' = "failed"
    /\ ret' = "line100"
    /\ response' = [status |-> 500, body |-> "Calculation failed",
                    revenue_hours |-> 0]
    /\ pc' = "responded"
    /\ UNCHANGED <<request, gtfs_data, loaded, date_obj, total_hours,
                   active_services, merged, grouping, t, parsed>>

\* lines 94-103: the archive arrives and is read into gtfs_data
Download ==
    /\ pc = "download"
    /\ \E feed \in Feeds :
        /\ gtfs_data' = feed
        /\ loaded' = feed
    /\ fetch' = "ok"
    /\ pc' = "validate"
    /\ UNCHANGED <<request, date_obj, total_hours, active_services, merged,
                   grouping, response, ret, t, parsed>>

\* lines 107-119
ValidateStep ==
    /\ pc = "validate"
    /\ LET v == Validate(gtfs_data)
       IN  /\ gtfs_data' = v.gtfs
           /\ pc' = IF v.ok THEN "preprocess" ELSE "return"
           /\ ret' = IF v.ok THEN ret ELSE "line119"
    /\ total_hours' = 0
    /\ UNCHANGED <<request, loaded, date_obj, active_services, merged,
                   grouping, response, fetch, t, parsed>>

\* lines 121-140
PreprocessStep ==
    /\ pc = "preprocess"
    /\ gtfs_data' = Preprocess(gtfs_data)
    /\ date_obj' = request.startDate
    /\ total_hours' = 0
    /\ pc' = "loop"
    /\ UNCHANGED <<request, loaded, active_services, merged, grouping,
                   response, fetch, ret, t, parsed>>

\* lines 142-170: one date of target_dates; an exception of the body leaves
\* the function and is answered by the endpoint's handler (lines 209-211).
Iterate ==
    /\ pc = "loop"
    /\ date_obj <= request.endDate
    /\ LET b == LoopBody(gtfs_data, date_obj, total_hours)
       IN  /\ gtfs_data' = b.gtfs
           /\ total_hours' = b.total
           /\ active_services' = b.active
           /\ merged' = b.merged
           /\ grouping' = b.grouping
           /\ pc' = IF b.ctl = "raise" THEN "responded"
                    ELSE IF b.ctl = "break" THEN "return"
                    ELSE "loop"
           /\ ret' = IF b.ctl = "raise" THEN "raised"
                     ELSE IF b.ctl = "break" THEN "line172"
                     ELSE ret
           /\ response' = IF b.ctl = "raise"
                          THEN [status |-> 500, body |-> "exception",
                                revenue_hours |-> 0]
                          ELSE response
    /\ date_obj' = date_obj + 1
    /\ UNCHANGED <<request, loaded, fetch, t, parsed>>

\* line 172: target_dates is exhausted
LoopExit ==
    /\ pc = "loop"
    /\ date_obj > request.endDate
    /\ pc' = "return"
    /\ ret' = "line172"
    /\ UNCHANGED <<request, gtfs_data, loaded, date_obj, total_hours,
                   active_services, merged, grouping, response, fetch, t, parsed>>

\* lines 199-207: the function returned a number
Respond ==
    /\ pc = "return"
    /\ response' = [status |-> 200, body |-> "result",
                    revenue_hours |-> total_hours]
    /\ pc' = "responded"
    /\ UNCHANGED <<request, gtfs_data, loaded, date_obj, total_hours,
                   active_services, merged, grouping, fetch, ret, t, parsed>>

Next ==
    \/ Receive
    \/ DownloadFails
    \/ Download
    \/ ValidateStep
    \/ PreprocessStep
    \/ Iterate
    \/ LoopExit
    \/ Respond

Spec == Init /\ [][Next]_vars

-----------------------------------------------------------------------------
(* parse_gtfs_time called on its own *)

\* The ":"-separated fields tried: empty, two digits, a sign, a non-integer
\* and an hour count beyond timedelta's range.
FieldTexts ==
    { <<>>, <<"0", "8">>, <<"2", "5">>, <<"-", "1">>, <<"x">>,
      <<"3", "0", "0", "0", "0", "0", "0", "0", "0", "0", "0">> }

RECURSIVE Join(_)
Join(fields) ==
    IF Len(fields) = 1 THEN fields[1]
    ELSE fields[1] \o <<":">> \o Join(Tail(fields))

TimeTexts ==
    {NaN} \cup
    UNION { {Join(f) : f \in [1..n -> FieldTexts]} : n \in 1..MaxFields }

ParseInit ==
    /\ pc = "parse_call"
    /\ request = [agencyKey |-> "None", startDate |-> 0, endDate |-> 0]
    /\ gtfs_data = NoData /\ loaded = NoData
    /\ date_obj = 0 /\ total_hours = 0
    /\ active_services = {} /\ merged = {} /\ grouping = "none"
    /\ response = NoResponse /\ fetch = "none" /\ ret = "none"
    /\ t \in TimeTexts
    /\ parsed = None

ParseCall ==
    /\ pc = "parse_call"
    /\ parsed' = parse_gtfs_time(t)
    /\ pc' = "parse_ret"
    /\ UNCHANGED <<request, gtfs_data, loaded, date_obj, total_hours,
                   active_services, merged, grouping, response, fetch, ret, t>>

ParseNext == ParseCall

SpecParse == ParseInit /\ [][ParseNext]_vars

-----------------------------------------------------------------------------
(* get_active_services_on_date called on its own, any number of times on  *)
(* the same two tables                                                     *)

ResolveCalendars ==
    { EmptyCalendar } \cup
    { CalendarTable(<<CalendarRow("S1", Flags(days), DateText(first), DateText(last))>>) :
        days \in {Range(Weekdays), {"tuesday"}, {}},
        first \in 0..2,
        last \in {0} \cup 2..MaxDay }

ExceptionRows ==
    { ExceptionRow(sid, d, type) :
        sid \in {"S1", "S2"}, d \in 1..2, type \in {"1", "2"} }

\* The same table with its date column held as datetime64.
AsDatetime(calendar_dates) ==
    [calendar_dates EXCEPT
        !.date_dtype = "datetime64",
        !.rows = [i \in DOMAIN calendar_dates.rows |->
                    [calendar_dates.rows[i] EXCEPT !.date = to_datetime(@)]]]

ResolveCalendarDates ==
    LET asText ==
            { EmptyCalendarDates }
            \cup { CalendarDatesTable(<<r>>) : r \in ExceptionRows }
            \cup { CalendarDatesTable(<<r, q>>) : r \in ExceptionRows, q \in ExceptionRows }
    IN  asText \cup { AsDatetime(CalendarDatesTable(<<r>>)) : r \in ExceptionRows }

ResolveInit ==
    /\ pc = "resolve_call"
    /\ request = [agencyKey |-> "None", startDate |-> 0, endDate |-> 0]
    /\ \E c \in ResolveCalendars, cd \in ResolveCalendarDates :
        /\ gtfs_data = [NoData EXCEPT !.calendar = c, !.calendar_dates = cd]
        /\ loaded = gtfs_data
    /\ date_obj = 0 /\ total_hours = 0
    /\ active_services = {} /\ merged = {} /\ grouping = "none"
    /\ response = NoResponse /\ fetch = "none" /\ ret = "none"
    /\ t = NaN /\ parsed = None

ResolveCall ==
    /\ pc \in {"resolve_call", "resolve_ret"}
    /\ \E d \in 1..MaxDay :
        LET r == get_active_services_on_date(d, gtfs_data.calendar,
                                             gtfs_data.calendar_dates)
        IN  /\ gtfs_data' = [gtfs_data EXCEPT !.calendar = r.calendar,
                                               !.calendar_dates = r.calendar_dates]
            /\ active_services' = r.result
            /\ date_obj' = d
    /\ pc' = "resolve_ret"
    /\ UNCHANGED <<request, loaded, total_hours, merged, grouping, response,
                   fetch, ret, t, parsed>>

ResolveNext == ResolveCall

SpecResolve == ResolveInit /\ [][ResolveNext]_vars

-----------------------------------------------------------------------------
(* Properties *)

\* An iteration of the date loop has run; it was for the date date_obj - 1.
IterationDone == fetch = "ok" /\ date_obj > request.startDate

\* The day a date cell of the tables as given stands for (0: none).
GivenDay(cell) == IF cell[1] \in {"str", "dt"} THEN cell[2] ELSE 0

GivenBase(d) ==
    {r.service_id : r \in
        {x \in Range(loaded.calendar.rows) :
            /\ x.flags[WeekdayName(d)] = "1"
            /\ GivenDay(x.start_date) >= 1 /\ GivenDay(x.start_date) <= d
            /\ GivenDay(x.end_date) >= d}}

GivenExceptions(d, type) ==
    {r.service_id : r \in
        {x \in Range(loaded.calendar_dates.rows) :
            GivenDay(x.date) = d /\ x.exception_type = type}}

\* C1: get_active_services_on_date returns exactly (base + added) - removed,
\* base being the services of the given calendar flagged '1' on the date's
\* weekday with start_date <= d <= end_date, added/removed the services with
\* a type '1' / '2' row dated d; a service removed on d is never returned.
C1_ResolveIsBasePlusAddedMinusRemoved ==
    pc = "resolve_ret" =>
        /\ active_services =
             (GivenBase(date_obj) \cup GivenExceptions(date_obj, "1"))
                \ GivenExceptions(date_obj, "2")
        /\ active_services \cap GivenExceptions(date_obj, "2") = {}

C1_Witness ==
    /\ pc = "resolve_ret"
    /\ \E sid \in GivenBase(date_obj) :
        /\ sid \in GivenExceptions(date_obj, "1")
        /\ sid \in GivenExceptions(date_obj, "2")
        /\ sid \notin active_services

\* A required table is missing: trips or stop_times absent or empty, or the
\* calendar absent or empty while there are no calendar_dates rows.
MissingRequiredTable ==
    \/ Unusable(loaded.trips)
    \/ Unusable(loaded.stop_times)
    \/ Unusable(loaded.calendar) /\ Unusable(loaded.calendar_dates)

\* C2: when a required table is missing the caller gets a failure it can
\* tell apart from a successful result of zero hours (no 200 answer).
C2_MissingTableIsDistinguished ==
    (pc = "responded" /\ fetch = "ok" /\ MissingRequiredTable)
        => response.status # 200

\* C3: no operation changes a table it was given: every table of the archive
\* keeps its columns and cell values throughout the computation.
C3_TablesUnchanged ==
    fetch = "ok" =>
        /\ loaded.calendar.rows # <<>> => gtfs_data.calendar = loaded.calendar
        /\ loaded.calendar_dates.present
             => gtfs_data.calendar_dates = loaded.calendar_dates
        /\ loaded.trips.present => gtfs_data.trips = loaded.trips
        /\ loaded.stop_times.present => gtfs_data.stop_times = loaded.stop_times

RECURSIVE SumOfDays(_, _)
SumOfDays(first, last) ==
    IF first > last THEN 0
    ELSE ServiceHours(loaded, first, first).total + SumOfDays(first + 1, last)

C5_ExceptionsOnlyFeed ==
    LET calBad == Unusable(loaded.calendar)
        cdRows == ~Unusable(loaded.calendar_dates)
        others == ~Unusable(loaded.trips) /\ ~Unusable(loaded.stop_times)
    IN  fetch = "ok" =>
            /\ (calBad /\ cdRows /\ others) => ret # "line119"
            /\ (ret = "line119" /\ others) => (calBad /\ ~cdRows)
            /\ (calBad /\ IterationDone) =>
                  active_services =
                      GivenExceptions(date_obj - 1, "1")
                          \ GivenExceptions(date_obj - 1, "2")

C5_Witness ==
    /\ Unusable(loaded.calendar)
    /\ IterationDone
    /\ active_services # {}
    /\ total_hours > 0

\* The rows of one group of the last iteration.
LastGroups ==
    IF grouping = "trip_id"
    THEN {{r \in merged : r.trip_id = k} : k \in {r.trip_id : r \in merged}}
    ELSE {{r \in merged : r.block_id = k} :
            k \in {r.block_id : r \in merged} \ {"nan"}}

\* C6: the running total is never negative and never decreases.
C6_TotalNeverDecreases ==
    [](total_hours >= 0) /\ [][total_hours' >= total_hours]_vars

C6_Witness ==
    /\ IterationDone
    /\ total_hours > 0
    /\ \E g \in LastGroups :
        TdLt(TdMax({r.arrival_td : r \in g}), TdMin({r.departure_td : r \in g}))

\* Decimal value of a text of at most two digits.
SmallInt(f) ==
    IF Len(f) = 1 THEN DigitVal(f[1]) ELSE 10 * DigitVal(f[1]) + DigitVal(f[2])

\* C7: parse_gtfs_time never raises; missing, wrong field count and
\* non-integer components give None; "HH:MM:SS" gives HH hours + MM minutes
\* + SS seconds, the hour not reduced modulo 24.
C7_ParseNeverRaises ==
    pc = "parse_ret" =>
        /\ parsed.kind \in {"None", "timedelta"}
        /\ (IsNa(t) \/ Len(Split(t)) # 3
              \/ \E i \in DOMAIN Split(t) : ~IsIntText(Split(t)[i]))
             => parsed.kind = "None"
        /\ (~IsNa(t) /\ Len(Split(t)) = 3
              /\ \A i \in 1..3 : /\ Len(Split(t)[i]) \in 1..2
                                 /\ IsIntText(Split(t)[i])
                                 /\ Split(t)[i][1] \in Digits)
             => /\ parsed.kind = "timedelta"
                /\ parsed.days * 86400 + parsed.seconds =
                     3600 * SmallInt(Split(t)[1]) + 60 * SmallInt(Split(t)[2])
                        + SmallInt(Split(t)[3])

\* The sum of the positive spans (latest arrival minus earliest departure)
\* of the given groups of rows, in seconds.
RECURSIVE PositiveSpans(_)
PositiveSpans(groups) ==
    IF groups = {} THEN 0
    ELSE LET g == CHOOSE x \in groups : TRUE
             first == TdMin({r.departure_td : r \in g})
             last == TdMax({r.arrival_td : r \in g})
             span == (last.days - first.days) * 86400
                        + last.seconds - first.seconds
         IN  (IF span > 0 THEN span ELSE 0) + PositiveSpans(groups \ {g})

TripGroups(rows) ==
    {{r \in rows : r.trip_id = k} : k \in {r.trip_id : r \in rows}}

BlockGroups(rows) ==
    {{r \in rows : r.block_id = k} : k \in {r.block_id : r \in rows} \ {"nan"}}

\* C8 as stated: the key is chosen from the date's joined rows (per trip when
\* none has a block, else per block), and a trip without a block is counted
\* only when no active trip of the date has a block.
C8_KeyFromJoinedRows ==
    (IterationDone /\ merged # {}) =>
        LET joined == Merge(gtfs_data.trips, gtfs_data.stop_times,
                            active_services)
            activeTrips == {x \in Range(gtfs_data.trips.rows) :
                               x.service_id \in active_services}
        IN  /\ grouping = IF \A r \in joined : r.block_id = "nan"
                          THEN "trip_id" ELSE "block_id"
            /\ (grouping = "trip_id")
                 => \A x \in activeTrips : x.block_id = "nan"

\* C8 amended: the key is chosen from the joined rows whose two times parse:
\* per trip_id when none of them has a block, else per non-null block_id,
\* and then the rows without a block add nothing to the date's hours.
C8_KeyFromUsableRows ==
    [][(pc = "loop" /\ pc' = "loop" /\ date_obj' = date_obj + 1) =>
          IF merged' = {} THEN total_hours' = total_hours
          ELSE IF \A r \in merged' : r.block_id = "nan"
          THEN /\ grouping' = "trip_id"
               /\ total_hours' - total_hours = PositiveSpans(TripGroups(merged'))
          ELSE /\ grouping' = "block_id"
               /\ total_hours' - total_hours = PositiveSpans(BlockGroups(merged'))
      ]_vars

C8_Witness ==
    /\ IterationDone
    /\ grouping = "block_id"
    /\ \E r \in merged : r.block_id = "nan"
    /\ \E r \in merged : r.block_id # "nan"
    /\ total_hours > 0

\* A stop_times row as given, and the value standing for both of its times
\* when exactly one is missing.
GivenStop(j) == loaded.stop_times.rows[j]

OneMissing(o) == IsNa(o.arrival_time) # IsNa(o.departure_time)

Present(o) ==
    IF IsNa(o.arrival_time) THEN o.departure_time ELSE o.arrival_time

C10_MissingParametersGive400 ==
    pc = "responded" =>
        /\ (request.agencyKey = "None" \/ request.startDate = 0
              \/ request.endDate = 0)
             => /\ response.status = 400
                /\ response.body = "Missing parameters"
                /\ fetch = "none"
        /\ response.status = 500 => ret \in {"line100", "raised"}

====
